---- MODULE Spec2Model ----
(***************************************************************************)
(* Model of simplepolygon (src/src/index.ts): the decomposition of a       *)
(* complex polygon into simple one-ring polygons with winding, parent and  *)
(* net winding.                                                            *)
(*                                                                         *)
(* Numbers.  Input vertices are integer points.  The coordinates of a      *)
(* crossing are rational, and are kept exactly: a coordinate pair [x, y]   *)
(* is the triple <<nx, ny, d>> with x = nx/d, y = ny/d, d > 0 and          *)
(* gcd(nx, ny, d) = 1, so that two pairs are equal as arrays exactly when  *)
(* their triples are equal.  A fractional distance is <<n, d>> likewise.   *)
(* Indices (rings, edges, intersections, output rings) are 0-based as in   *)
(* the source; a sequence s is read at index i as s[i + 1].                *)
(***************************************************************************)
EXTENDS Integers, Sequences, FiniteSets, TLC

(* ------------------------------ bounds -------------------------------- *)
\* longest input ring of the one-ring inputs (vertices, closing vertex not counted)
MaxRingLen == 4
\* largest coordinate of the square rings of the multi-ring inputs
SquareMax == 5
\* most rings of a multi-ring input
MaxRings == 3

(* ------------------------- arithmetic helpers ------------------------- *)
Abs(n) == IF n < 0 THEN -n ELSE n

RECURSIVE GCD(_, _)
GCD(a, b) == IF b = 0 THEN a ELSE GCD(b, a % b)

\* [x, y] with integer coordinates
Position(x, y) == <<x, y, 1>>

\* the coordinate pair [nx/d, ny/d] in lowest terms
Rational2(nx, ny, d) ==
  LET g == GCD(GCD(Abs(nx), Abs(ny)), Abs(d))
      s == IF d < 0 THEN -g ELSE g
  IN  <<nx \div s, ny \div s, d \div s>>

\* the number n/d in lowest terms, d > 0
Rational1(n, d) ==
  LET g == GCD(Abs(n), Abs(d))
      s == IF d < 0 THEN -g ELSE g
  IN  <<n \div s, d \div s>>

\* a.param < b.param
ParamLess(a, b) == a[1] * b[2] < b[1] * a[2]

equalArrays(a, b) == a = b

\* the remainder operator of the source language: the sign of the dividend
Rem(n, m) == IF n >= 0 THEN n % m ELSE -((-n) % m)

mod(n, m) == Rem(Rem(n, m) + m, m)

(* --------------------------- isConvex ---------------------------------- *)
\* the sign-carrying numerator of
\*   (pts[1][0]-pts[0][0])*(pts[2][1]-pts[0][1]) - (pts[1][1]-pts[0][1])*(pts[2][0]-pts[0][0])
\* over the positive denominator d0*d0*d1*d2
ConvexD(p0, p1, p2) ==
  (p1[1] * p0[3] - p0[1] * p1[3]) * (p2[2] * p0[3] - p0[2] * p2[3])
  - (p1[2] * p0[3] - p0[2] * p1[3]) * (p2[1] * p0[3] - p0[1] * p2[3])

isConvex(pts, righthanded) == (ConvexD(pts[1], pts[2], pts[3]) >= 0) = righthanded

(* --------------------------- windingOfRing ----------------------------- *)
\* index of the first vertex with the smallest x among ring[0 .. n-1]
RECURSIVE LeftScan(_, _, _, _)
LeftScan(ring, n, i, leftVtx) ==
  IF i >= n THEN leftVtx
  ELSE LeftScan(ring, n, i + 1,
                IF ring[i + 1][1] * ring[leftVtx + 1][3] < ring[leftVtx + 1][1] * ring[i + 1][3]
                THEN i ELSE leftVtx)

windingOfRing(ring) ==
  LET n == Len(ring) - 1
      leftVtx == LeftScan(ring, n, 0, 0)
  IN  IF isConvex(<<ring[mod(leftVtx - 1, n) + 1], ring[leftVtx + 1], ring[mod(leftVtx + 1, n) + 1]>>, TRUE)
      THEN 1 ELSE -1

(* ----------------- intersection finder (external) ---------------------- *)
\* all [ring, edge] of closed rings, in ring order then edge order
RECURSIVE EdgeSeq(_, _)
EdgeSeq(coords, r) ==
  IF r >= Len(coords) THEN <<>>
  ELSE [e \in 1..(Len(coords[r + 1]) - 1) |-> <<r, e - 1>>] \o EdgeSeq(coords, r + 1)

\* the record for the ordered edge pair (re0, re1), or <<>> when the two
\* segments do not cross strictly inside both
IsectRecord(coords, re0, re1) ==
  LET start0 == coords[re0[1] + 1][re0[2] + 1]
      end0   == coords[re0[1] + 1][re0[2] + 2]
      start1 == coords[re1[1] + 1][re1[2] + 1]
      end1   == coords[re1[1] + 1][re1[2] + 2]
      x0 == start0[1]  y0 == start0[2]
      x1 == end0[1]    y1 == end0[2]
      x2 == start1[1]  y2 == start1[2]
      x3 == end1[1]    y3 == end1[2]
      denom == (x0 - x1) * (y2 - y3) - (y0 - y1) * (x2 - x3)
      nx == (x0 * y1 - y0 * x1) * (x2 - x3) - (x0 - x1) * (x2 * y3 - y2 * x3)
      ny == (x0 * y1 - y0 * x1) * (y2 - y3) - (y0 - y1) * (x2 * y3 - y2 * x3)
      \* frac0 and frac1 as numerator and denominator
      n0 == IF x1 # x0 THEN nx - x0 * denom ELSE ny - y0 * denom
      d0 == IF x1 # x0 THEN denom * (x1 - x0) ELSE denom * (y1 - y0)
      n1 == IF x3 # x2 THEN nx - x2 * denom ELSE ny - y2 * denom
      d1 == IF x3 # x2 THEN denom * (x3 - x2) ELSE denom * (y3 - y2)
  IN  IF denom = 0 THEN <<>>
      ELSE IF /\ n0 * d0 > 0 /\ Abs(n0) < Abs(d0)
              /\ n1 * d1 > 0 /\ Abs(n1) < Abs(d1)
           THEN <<[isect |-> Rational2(nx, ny, denom),
                   ring0 |-> re0[1], edge0 |-> re0[2], frac0 |-> Rational1(n0, d0),
                   ring1 |-> re1[1], edge1 |-> re1[2], frac1 |-> Rational1(n1, d1),
                   unique |-> re0[1] < re1[1] \/ (re0[1] = re1[1] /\ re0[2] < re1[2])]>>
           ELSE <<>>

RECURSIVE Flatten(_)
Flatten(ss) == IF ss = <<>> THEN <<>> ELSE Head(ss) \o Flatten(Tail(ss))

\* the records of all crossings, for edge pairs in ring and edge order: two
\* per crossing, one from the viewpoint of each edge; unique is set on the
\* first of the two
gpsi(coords) ==
  LET E == EdgeSeq(coords, 0)
      m == Len(E)
      found == SelectSeq([k \in 1..(m * m) |->
                            IsectRecord(coords, E[((k - 1) \div m) + 1], E[((k - 1) % m) + 1])],
                         LAMBDA r : r # <<>>)
  IN  [k \in 1..Len(found) |-> found[k][1]]

(* ------------------------------ graph ---------------------------------- *)
\* the value of a next-intersection index that was never assigned
undefined == -1

PseudoVtx(coord, param, ringAndEdgeIn, ringAndEdgeOut) ==
  [coord |-> coord, param |-> param,
   ringAndEdgeIn |-> ringAndEdgeIn, ringAndEdgeOut |-> ringAndEdgeOut]

Isect(coord, ringAndEdge1, ringAndEdge2, ringAndEdge1Walkable, ringAndEdge2Walkable) ==
  [coord |-> coord, ringAndEdge1 |-> ringAndEdge1, ringAndEdge2 |-> ringAndEdge2,
   ringAndEdge1Walkable |-> ringAndEdge1Walkable,
   ringAndEdge2Walkable |-> ringAndEdge2Walkable,
   nxtIsectAlongRingAndEdge1 |-> undefined,
   nxtIsectAlongRingAndEdge2 |-> undefined]

\* the ring-vertex-intersections of all rings, ring after ring
RECURSIVE RingVertexIsects(_, _)
RingVertexIsects(coords, i) ==
  IF i >= Len(coords) THEN <<>>
  ELSE LET n == Len(coords[i + 1]) - 1
       IN  [jj \in 1..n |->
              Isect(coords[i + 1][jj], <<i, mod((jj - 1) - 1, n)>>, <<i, jj - 1>>, FALSE, TRUE)]
           \o RingVertexIsects(coords, i + 1)

\* SelfIsects with one intersection per record, unique or not
SelfIsectsPerRecord(data) ==
  [k \in 1..Len(data) |->
     Isect(data[k].isect, <<data[k].ring0, data[k].edge0>>,
           <<data[k].ring1, data[k].edge1>>, TRUE, TRUE)]

\* the self-intersections: one per record that is flagged unique
SelfIsects(data) ==
  LET uniques == SelectSeq(data, LAMBDA r : r.unique)
  IN  [k \in 1..Len(uniques) |->
         Isect(uniques[k].isect, <<uniques[k].ring0, uniques[k].edge0>>,
               <<uniques[k].ring1, uniques[k].edge1>>, TRUE, TRUE)]

\* the intersection-pseudo-vertices pushed on the array of [i, j], in record order
IsectPseudoVtxs(data, i, j) ==
  LET onEdge == SelectSeq(data, LAMBDA r : r.ring0 = i /\ r.edge0 = j)
  IN  [k \in 1..Len(onEdge) |->
         PseudoVtx(onEdge[k].isect, onEdge[k].frac0, <<i, j>>,
                   <<onEdge[k].ring1, onEdge[k].edge1>>)]

\* insert a into the sequence s that is sorted by param
RECURSIVE InsertByParam(_, _)
InsertByParam(a, s) ==
  IF s = <<>> THEN <<a>>
  ELSE IF ParamLess(a.param, Head(s).param) THEN <<a>> \o s
       ELSE <<Head(s)>> \o InsertByParam(a, Tail(s))

\* sort by ascending param
RECURSIVE SortByParam(_)
SortByParam(s) == IF s = <<>> THEN <<>> ELSE InsertByParam(Head(s), SortByParam(Tail(s)))

\* [ring][edge] -> the pseudo-vertices with this ring and edge as ringAndEdgeIn,
\* sorted by param: the ring-pseudo-vertex of vertex j+1 and the
\* intersection-pseudo-vertices on the edge
pseudoVtxListByRingAndEdge(coords, data) ==
  [ii \in 1..Len(coords) |->
     LET n == Len(coords[ii]) - 1
     IN  [jj \in 1..n |->
            SortByParam(<<PseudoVtx(coords[ii][mod(jj, n) + 1], <<1, 1>>,
                                    <<ii - 1, jj - 1>>, <<ii - 1, mod(jj, n)>>)>>
                        \o IsectPseudoVtxs(data, ii - 1, jj - 1))]]

\* index of the intersection found by the spatial index at coord
\* (the first of the search results)
RECURSIVE RbushSearch(_, _, _)
RbushSearch(list, coord, i) ==
  IF i >= Len(list) THEN undefined
  ELSE IF equalArrays(list[i + 1].coord, coord) THEN i
       ELSE RbushSearch(list, coord, i + 1)

\* all pseudo-vertices in the order of the three nested loops, each with its
\* nxtIsectAlongEdgeIn resolved
PseudoVtxsWithNxt(coords, pvl, list) ==
  Flatten([ii \in 1..Len(pvl) |->
    Flatten([jj \in 1..Len(pvl[ii]) |->
      [kk \in 1..Len(pvl[ii][jj]) |->
         LET coordToFind ==
               IF kk = Len(pvl[ii][jj])
               THEN pvl[ii][mod(jj, Len(coords[ii]) - 1) + 1][1].coord
               ELSE pvl[ii][jj][kk + 1].coord
         IN  [coord |-> pvl[ii][jj][kk].coord,
              ringAndEdgeIn |-> pvl[ii][jj][kk].ringAndEdgeIn,
              nxtIsectAlongEdgeIn |-> RbushSearch(list, coordToFind, 0)]]])])

\* port the next intersection of every pseudo-vertex to its intersection
\* PortNxtIsect that treats every intersection as a ring vertex
RECURSIVE PortNxtIsectEdge2(_, _, _)
PortNxtIsectEdge2(list, pvs, numvertices) ==
  IF pvs = <<>> THEN list
  ELSE LET pv == Head(pvs)
           l  == RbushSearch(list, pv.coord, 0)
       IN  PortNxtIsectEdge2([list EXCEPT ![l + 1].nxtIsectAlongRingAndEdge2 = pv.nxtIsectAlongEdgeIn],
                             Tail(pvs), numvertices)

RECURSIVE PortNxtIsect(_, _, _)
PortNxtIsect(list, pvs, numvertices) ==
  IF pvs = <<>> THEN list
  ELSE LET pv == Head(pvs)
           l  == RbushSearch(list, pv.coord, 0)
           upd == IF l < numvertices
                  THEN [list EXCEPT ![l + 1].nxtIsectAlongRingAndEdge2 = pv.nxtIsectAlongEdgeIn]
                  ELSE IF equalArrays(list[l + 1].ringAndEdge1, pv.ringAndEdgeIn)
                       THEN [list EXCEPT ![l + 1].nxtIsectAlongRingAndEdge1 = pv.nxtIsectAlongEdgeIn]
                       ELSE [list EXCEPT ![l + 1].nxtIsectAlongRingAndEdge2 = pv.nxtIsectAlongEdgeIn]
       IN  PortNxtIsect(upd, Tail(pvs), numvertices)

RECURSIVE NumVertices(_)
NumVertices(coords) ==
  IF coords = <<>> THEN 0 ELSE (Len(Head(coords)) - 1) + NumVertices(Tail(coords))

\* the elements of new Set(vertices): every vertex is an array of its own, and
\* a Set holds arrays by reference, so each vertex of each ring is one element
VertexSet(coords) ==
  UNION {{<<i, k>> : k \in 1..(Len(coords[i]) - 1)} : i \in 1..Len(coords)}

\* lines 60-63: the duplicate-vertex check
HasDuplicateVertices(coords) == NumVertices(coords) # Cardinality(VertexSet(coords))

\* the intersection list after graph wiring
BuildIsectList(coords, data) ==
  LET list0 == RingVertexIsects(coords, 0) \o SelfIsects(data)
      pvl   == pseudoVtxListByRingAndEdge(coords, data)
  IN  PortNxtIsect(list0, PseudoVtxsWithNxt(coords, pvl, list0), NumVertices(coords))

(* ------------------------------ seeder --------------------------------- *)
\* left-most ring-vertex-intersection among list[i .. i+n-1]
RECURSIVE LeftIsectScan(_, _, _, _)
LeftIsectScan(list, i, last, leftIsect) ==
  IF i >= last THEN leftIsect
  ELSE LeftIsectScan(list, i + 1, last,
         IF list[i + 1].coord[1] * list[leftIsect + 1].coord[3]
              < list[leftIsect + 1].coord[1] * list[i + 1].coord[3]
         THEN i ELSE leftIsect)

\* first intersection that has leftIsect as a next intersection, 0 if none
RECURSIVE IsectBefore(_, _, _)
IsectBefore(list, leftIsect, k) ==
  IF k >= Len(list) THEN 0
  ELSE IF list[k + 1].nxtIsectAlongRingAndEdge1 = leftIsect
          \/ list[k + 1].nxtIsectAlongRingAndEdge2 = leftIsect
       THEN k ELSE IsectBefore(list, leftIsect, k + 1)

\* the left-most ring-vertex-intersection of rings j, j+1, ..; i is the index
\* of the first ring-vertex-intersection of ring j
RECURSIVE LeftIsects(_, _, _, _)
LeftIsects(coords, list, j, i) ==
  IF j >= Len(coords) THEN <<>>
  ELSE LET n == Len(coords[j + 1]) - 1
       IN  <<LeftIsectScan(list, i, i + n, i)>> \o LeftIsects(coords, list, j + 1, i + n)

\* the seeder throws 'Next intersection not defined'
SeedThrows(coords, list) ==
  \E leftIsect \in {LeftIsects(coords, list, 0, 0)[j] : j \in 1..Len(coords)} :
     list[leftIsect + 1].nxtIsectAlongRingAndEdge2 = undefined

\* the queue entry of the ring whose left-most intersection is leftIsect
Seed(list, leftIsect) ==
  LET isectAfterLeftIsect == list[leftIsect + 1].nxtIsectAlongRingAndEdge2
      isectBeforeLeftIsect == IsectBefore(list, leftIsect, 0)
      windingAtIsect ==
        IF isConvex(<<list[isectBeforeLeftIsect + 1].coord, list[leftIsect + 1].coord,
                      list[isectAfterLeftIsect + 1].coord>>, TRUE)
        THEN 1 ELSE -1
  IN  [isect |-> leftIsect, parent |-> -1, winding |-> windingAtIsect]

\* one queue entry per input ring, in ring order
SeedQueue(coords, list) ==
  LET lefts == LeftIsects(coords, list, 0, 0)
  IN  [j \in 1..Len(coords) |-> Seed(list, lefts[j])]

\* the decimal digits of a natural number, as character codes
RECURSIVE Digits(_)
Digits(n) == IF n < 10 THEN <<48 + n>> ELSE Digits(n \div 10) \o <<48 + (n % 10)>>

\* an integer as a string of character codes
NumberToString(n) == IF n < 0 THEN <<45>> \o Digits(-n) ELSE Digits(n)

\* the string a coordinate array [x, y] is converted to when two arrays are
\* compared with > (ring vertices only: integer coordinates)
ArrayToString(coord) == NumberToString(coord[1]) \o <<44>> \o NumberToString(coord[2])

\* a > b for strings: by character code, a proper prefix being smaller
RECURSIVE StringGreater(_, _)
StringGreater(a, b) ==
  IF a = <<>> THEN FALSE
  ELSE IF b = <<>> THEN TRUE
  ELSE IF Head(a) # Head(b) THEN Head(a) > Head(b)
  ELSE StringGreater(Tail(a), Tail(b))

\* the comparator of queue.sort: negative when a sorts before b
QueueCompare(list, a, b) ==
  IF StringGreater(ArrayToString(list[a.isect + 1].coord), ArrayToString(list[b.isect + 1].coord))
  THEN -1 ELSE 1

RECURSIVE InsertQueue(_, _, _)
InsertQueue(list, a, q) ==
  IF q = <<>> THEN <<a>>
  ELSE IF QueueCompare(list, a, Head(q)) < 0 THEN <<a>> \o q
       ELSE <<Head(q)>> \o InsertQueue(list, a, Tail(q))

\* SortQueue that leaves the seeds in ring order
SortQueueNone(list, q) == q

RECURSIVE SortQueue(_, _)
SortQueue(list, q) ==
  IF q = <<>> THEN <<>> ELSE InsertQueue(list, Head(q), SortQueue(list, Tail(q)))

(* --------------------------- post-processor ---------------------------- *)
\* an output feature: one ring and its properties; netWinding is absent
\* until setNetWinding assigns it
Feature(coords, parent, winding) == [coords |-> coords, parent |-> parent, winding |-> winding]

WithParent(f, parent) ==
  IF "netWinding" \in DOMAIN f
  THEN [coords |-> f.coords, parent |-> parent, winding |-> f.winding, netWinding |-> f.netWinding]
  ELSE [coords |-> f.coords, parent |-> parent, winding |-> f.winding]

WithNetWinding(f, netWinding) ==
  [coords |-> f.coords, parent |-> f.parent, winding |-> f.winding, netWinding |-> netWinding]

\* pt lies on the segment a-b
OnSegment(pt, a, b) ==
  /\ ConvexD(a, b, pt) = 0
  /\ (a[1] * pt[3] - pt[1] * a[3]) * (b[1] * pt[3] - pt[1] * b[3]) <= 0
  /\ (a[2] * pt[3] - pt[2] * a[3]) * (b[2] * pt[3] - pt[2] * b[3]) <= 0

\* the ray from pt in the direction of +x crosses the segment a-b
RayCrosses(pt, a, b) ==
  LET aAbove == a[2] * pt[3] > pt[2] * a[3]
      bAbove == b[2] * pt[3] > pt[2] * b[3]
  IN  /\ aAbove # bAbove
      /\ IF bAbove THEN ConvexD(a, b, pt) > 0 ELSE ConvexD(a, b, pt) < 0

\* point in polygon with the boundary ignored: strictly inside the closed ring
booleanPointInPolygon(pt, ring) ==
  /\ \A e \in 1..(Len(ring) - 1) : ~OnSegment(pt, ring[e], ring[e + 1])
  /\ Cardinality({e \in 1..(Len(ring) - 1) : RayCrosses(pt, ring[e], ring[e + 1])}) % 2 = 1

\* twice the signed planar area of a closed ring, over the denominator 1
\* (integer rings) or as the sum of cross products scaled per term
RECURSIVE Shoelace2(_, _)
Shoelace2(ring, e) ==
  IF e >= Len(ring) THEN <<0, 1>>
  ELSE LET a == ring[e]
           b == ring[e + 1]
           t == <<a[1] * b[2] - b[1] * a[2], a[3] * b[3]>>
           r == Shoelace2(ring, e + 1)
       IN  Rational1(t[1] * r[2] + r[1] * t[2], t[2] * r[2])

\* the area of the polygon of one ring: non-negative
area(ring) == LET s == Shoelace2(ring, 1) IN <<Abs(s[1]), 2 * s[2]>>

\* parent of output ring c: the last other ring j that strictly contains the
\* first vertex of c (area(j) < parentArea always holds: parentArea stays Infinity)
RECURSIVE ParentScan(_, _, _, _)
ParentScan(features, c, j, parent) ==
  IF j >= Len(features) THEN parent
  ELSE ParentScan(features, c, j + 1,
         IF c # j /\ booleanPointInPolygon(features[c + 1].coords[1], features[j + 1].coords)
         THEN j ELSE parent)

\* determineParents that assigns no parent
determineParentsSkipped(features) == features

determineParents(features) ==
  LET featuresWithoutParent == {i \in 0..(Len(features) - 1) : features[i + 1].parent = -1}
  IN  IF Cardinality(featuresWithoutParent) > 1
      THEN [i \in 1..Len(features) |->
              IF (i - 1) \in featuresWithoutParent
              THEN WithParent(features[i], ParentScan(features, i - 1, 0, -1))
              ELSE features[i]]
      ELSE features

\* depth-first assignment of netWinding to the children of parent, scanning
\* the features from index i on
RECURSIVE setNetWindingOfChildren(_, _, _, _)
setNetWindingOfChildren(features, parent, parentNetWinding, i) ==
  IF i >= Len(features) THEN features
  ELSE IF features[i + 1].parent = parent
       THEN LET netWinding == parentNetWinding + features[i + 1].winding
                f1 == [features EXCEPT ![i + 1] = WithNetWinding(@, netWinding)]
                f2 == setNetWindingOfChildren(f1, i, netWinding, 0)
            IN  setNetWindingOfChildren(f2, parent, parentNetWinding, i + 1)
       ELSE setNetWindingOfChildren(features, parent, parentNetWinding, i + 1)

RECURSIVE setNetWindingFrom(_, _)
setNetWindingFrom(features, i) ==
  IF i >= Len(features) THEN features
  ELSE IF features[i + 1].parent = -1
       THEN LET netWinding == features[i + 1].winding
                f1 == [features EXCEPT ![i + 1] = WithNetWinding(@, netWinding)]
            IN  setNetWindingFrom(setNetWindingOfChildren(f1, i, netWinding, 0), i + 1)
       ELSE setNetWindingFrom(features, i + 1)

\* setNetWinding that gives every ring its own winding as netWinding
setNetWindingFlat(features) ==
  [i \in 1..Len(features) |-> WithNetWinding(features[i], features[i].winding)]

setNetWinding(features) == setNetWindingFrom(features, 0)

(* ------------------------------- state --------------------------------- *)
VARIABLES
  featureType,              \* feature.type
  geometryType,             \* feature.geometry.type, or "undefined" / "null" for no geometry
  input,                    \* the rings of the feature as passed by the caller
  previous,                 \* the collection returned by an earlier call on this feature
  thrown,                   \* the message of the Error thrown, "" when none
  numSelfIsect,             \* selfIsectsData.length, undefined before gpsi is called
  coordinates,              \* feature.geometry.coordinates
  pc,                       \* position in simplepolygon
  isectList,
  queue,
  outputFeatureArray,       \* the output rings; the returned collection when pc = "done"
  startIsect,
  currentIsect,
  nxtIsect,
  walkingRingAndEdge,
  currentOutputRingParent,
  currentOutputRingWinding,
  currentOutputRingCoords

vars == <<featureType, geometryType, input, previous, thrown, numSelfIsect, coordinates, pc, isectList, queue, outputFeatureArray, startIsect, currentIsect,
          nxtIsect, walkingRingAndEdge, currentOutputRingParent, currentOutputRingWinding,
          currentOutputRingCoords>>

\* what the caller passed: no step of a call changes it
callVars == <<featureType, geometryType, input, previous>>

walkVars == <<startIsect, currentIsect, nxtIsect, walkingRingAndEdge, currentOutputRingParent,
              currentOutputRingWinding, currentOutputRingCoords>>

(* ------------------------------- inputs -------------------------------- *)
\* one-ring inputs: any closed ring of 3 .. MaxRingLen pairwise distinct points
\* of the 3 x 3 grid, self-intersecting or not, degenerate or not
GridPoints == {Position(x, y) : x \in 0..2, y \in 0..2}

\* sequences of n pairwise distinct points of S
RECURSIVE DistinctSeqs(_, _)
DistinctSeqs(S, n) ==
  IF n = 0 THEN {<<>>}
  ELSE UNION {{<<p>> \o t : t \in DistinctSeqs(S \ {p}, n - 1)} : p \in S}

Rings == UNION {{s \o <<s[1]>> : s \in DistinctSeqs(GridPoints, n)} : n \in 3..MaxRingLen}

\* multi-ring inputs: rings that are squares [a, b] x [a, b], right- or
\* left-handed, which lie apart, inside one another or across one another
Square(a, b, righthanded) ==
  IF righthanded
  THEN <<Position(a, a), Position(b, a), Position(b, b), Position(a, b), Position(a, a)>>
  ELSE <<Position(a, a), Position(a, b), Position(b, b), Position(b, a), Position(a, a)>>

\* sequences of n squares that share no corner coordinate, with corners in S
RECURSIVE SquareSeqs(_, _)
SquareSeqs(S, n) ==
  IF n = 0 THEN {<<>>}
  ELSE UNION {UNION {{<<Square(ab[1], ab[2], h)>> \o t : t \in SquareSeqs(rest, n - 1)}
                     : rest \in {S \ {ab[1], ab[2]}}}
              : ab \in {p \in S \X S : p[1] < p[2]}, h \in BOOLEAN}

\* no two intersections of the graph have the same coordinates: a crossing
\* does not fall on a ring vertex or on another crossing
UniqueIsectCoords(coords) ==
  \E data \in {gpsi(coords)} :
    \E crossings \in {{data[k].isect : k \in {u \in 1..Len(data) : data[u].unique}}} :
      /\ 2 * Cardinality(crossings) = Len(data)
      /\ \A i \in 1..Len(coords) : \A j \in 1..Len(coords[i]) : coords[i][j] \notin crossings

\* closeRing that leaves an open ring open
closeRingNever(ring) == ring

\* closeRing that appends the first vertex to every ring
closeRingAlways(ring) == Append(ring, ring[1])

closeRing(ring) ==
  IF ~equalArrays(ring[1], ring[Len(ring)]) THEN Append(ring, ring[1]) ELSE ring

InitRest ==
  /\ pc = "start"
  /\ previous = <<>>
  /\ thrown = ""
  /\ numSelfIsect = undefined
  /\ isectList = <<>>
  /\ queue = <<>>
  /\ outputFeatureArray = <<>>
  /\ startIsect = undefined
  /\ currentIsect = undefined
  /\ nxtIsect = undefined
  /\ walkingRingAndEdge = <<>>
  /\ currentOutputRingParent = -1
  /\ currentOutputRingWinding = 0
  /\ currentOutputRingCoords = <<>>

\* two rings whose boundaries cross only where an edge of the second ring
\* passes through a vertex of the first: (2,5) and (2,3) lie on the edges
\* (1,4)-(3,6) and (5,0)-(1,4)
CrossedAtVertices ==
  <<<<Position(3, 4), Position(2, 5), Position(0, 5), Position(0, 3), Position(2, 3), Position(3, 4)>>,
    <<Position(1, 4), Position(3, 6), Position(5, 0), Position(1, 4)>>>>

\* one ring that passes twice through the vertex (1,1)
PinchedRing ==
  <<<<Position(0, 0), Position(2, 0), Position(1, 1), Position(2, 2), Position(0, 2),
      Position(1, 1), Position(0, 0)>>>>

\* two triangles that share the vertex (1,1)
TouchingRings ==
  <<<<Position(0, 0), Position(2, 0), Position(1, 1), Position(0, 0)>>,
    <<Position(1, 1), Position(2, 2), Position(0, 2), Position(1, 1)>>>>

\* a ring that crosses itself at (3,1), and a triangle to the right of it
\* whose coordinates have two digits
FarRings ==
  <<<<Position(2, 0), Position(4, 0), Position(2, 2), Position(4, 2), Position(2, 0)>>,
    <<Position(10, 0), Position(12, 0), Position(11, 1), Position(10, 0)>>>>

\* a ring that crosses itself at (3,1), and a triangle below it; the first
\* vertex of each ring is its left-most one, and both are at (2,0)
SharedLeftmost ==
  <<<<Position(2, 0), Position(4, 0), Position(2, 2), Position(4, 2), Position(2, 0)>>,
    <<Position(2, 0), Position(4, -2), Position(3, -2), Position(2, 0)>>>>

Polygons ==
  {<<r>> : r \in Rings} \cup UNION {SquareSeqs(0..SquareMax, n) : n \in 2..MaxRings}
    \cup {CrossedAtVertices, PinchedRing, TouchingRings, FarRings, SharedLeftmost}

\* the rings without their closing vertex
OpenRings(coords) == [i \in 1..Len(coords) |-> SubSeq(coords[i], 1, Len(coords[i]) - 1)]

\* the values of feature.type and feature.geometry.type that simplepolygon
\* rejects; a MultiLineString has coordinates of the shape of a Polygon's
InvalidKinds ==
  ({"Feature", "FeatureCollection"} \X {"Polygon", "MultiLineString", "undefined", "null"})
    \ {<<"Feature", "Polygon">>}

\* the coordinates passed with a rejected feature: open and closed rings
InvalidSamples ==
  {<<Square(0, 4, TRUE), Square(1, 3, FALSE)>>,
   OpenRings(<<Square(0, 4, TRUE), Square(1, 3, FALSE)>>),
   OpenRings(<<<<Position(0, 0), Position(2, 0), Position(0, 2), Position(2, 2), Position(0, 0)>>>>)}

\* the caller passes closed rings
Init ==
  /\ \/ /\ featureType = "Feature"
        /\ geometryType = "Polygon"
        /\ input \in Polygons
        /\ UniqueIsectCoords(input)
     \/ \E kind \in InvalidKinds :
          /\ featureType = kind[1]
          /\ geometryType = kind[2]
          /\ input \in IF kind[2] \in {"undefined", "null"} THEN {<<>>} ELSE InvalidSamples
  /\ coordinates = input
  /\ InitRest

\* the caller passes open rings, which simplepolygon closes
InitOpen ==
  /\ featureType = "Feature"
  /\ geometryType = "Polygon"
  /\ \E p \in Polygons : UniqueIsectCoords(p) /\ input = OpenRings(p)
  /\ coordinates = input
  /\ InitRest

(* ------------------------------- actions ------------------------------- *)
\* lines 50-330: process the input, compute the self-intersections, and
\* either finish on the rings as they are or build the graph and the queue
\* the messages of the errors simplepolygon throws
NotAFeature == "The input must a geojson object of type Feature"
EmptyGeometry == "The input must a geojson object with a non-empty geometry"
NotAPolygon == "The input must be a geojson Polygon"
DuplicateVertices ==
  "The input polygon may not have duplicate vertices (except for the first and last vertex of each ring)"

\* an error raised without its message
NoMessage == ""

NextNotDefined == "Next intersection not defined"

\* CheckInput that accepts every geometry type
CheckInputAnyGeometry(type, geometry) ==
  IF type # "Feature" THEN "The input must a geojson object of type Feature"
  ELSE IF geometry \in {"undefined", "null"}
       THEN "The input must a geojson object with a non-empty geometry"
       ELSE ""

\* lines 42-48: the message of the input check that fails, "" when none does
CheckInput(type, geometry) ==
  IF type # "Feature" THEN NotAFeature
  ELSE IF geometry \in {"undefined", "null"} THEN EmptyGeometry
  ELSE IF geometry # "Polygon" THEN NotAPolygon
  ELSE ""

\* lines 42-334: check and close the input, find the intersections, then
\* either return the input rings (no intersection) or build the graph and
\* the seed queue
Start ==
  /\ pc = "start"
  /\ IF CheckInput(featureType, geometryType) # ""
     THEN /\ pc' = "error"
          /\ thrown' = CheckInput(featureType, geometryType)
          /\ UNCHANGED <<coordinates, numSelfIsect, isectList, queue, outputFeatureArray>>
     ELSE
     LET closed == [i \in 1..Len(coordinates) |-> closeRing(coordinates[i])]
         selfIsectsData == gpsi(closed)
         list == BuildIsectList(closed, selfIsectsData)
     IN  /\ coordinates' = closed
         /\ IF HasDuplicateVertices(closed)
            THEN /\ pc' = "error"
                 /\ thrown' = DuplicateVertices
                 /\ UNCHANGED <<numSelfIsect, isectList, queue, outputFeatureArray>>
            ELSE /\ numSelfIsect' = Len(selfIsectsData)
                 /\ IF Len(selfIsectsData) = 0
                    THEN /\ outputFeatureArray' =
                              setNetWinding(determineParents(
                                [i \in 1..Len(closed) |->
                                   Feature(closed[i], -1, windingOfRing(closed[i]))]))
                         /\ pc' = "done"
                         /\ UNCHANGED <<thrown, isectList, queue>>
                    ELSE /\ isectList' = list
                         /\ IF SeedThrows(closed, list)
                            THEN pc' = "error" /\ thrown' = NextNotDefined /\ UNCHANGED queue
                            ELSE /\ pc' = "queue"
                                 /\ queue' = SortQueue(list, SeedQueue(closed, list))
                                 /\ UNCHANGED thrown
                         /\ UNCHANGED outputFeatureArray
  /\ UNCHANGED <<callVars, walkVars>>

\* lines 336-376: pop the last entry and set up the walk
Pop ==
  /\ pc = "queue"
  /\ queue # <<>>
  /\ LET popped == queue[Len(queue)]
         s == isectList[popped.isect + 1]
         nxt == IF s.ringAndEdge1Walkable THEN s.nxtIsectAlongRingAndEdge1
                                          ELSE s.nxtIsectAlongRingAndEdge2
     IN  /\ queue' = SubSeq(queue, 1, Len(queue) - 1)
         /\ startIsect' = popped.isect
         /\ currentOutputRingParent' = popped.parent
         /\ currentOutputRingWinding' = popped.winding
         /\ currentOutputRingCoords' = <<s.coord>>
         /\ currentIsect' = popped.isect
         /\ walkingRingAndEdge' = IF s.ringAndEdge1Walkable THEN s.ringAndEdge1 ELSE s.ringAndEdge2
         /\ nxtIsect' = nxt
         /\ pc' = IF nxt = undefined THEN "error" ELSE "walk"
         /\ thrown' = IF nxt = undefined THEN NextNotDefined ELSE thrown
  /\ UNCHANGED <<callVars, numSelfIsect, coordinates, isectList, outputFeatureArray>>

\* RemoveFromQueue that leaves the queue as it is
RemoveFromQueueNever(q, isect) == q

\* queue without its first entry for intersection isect
RECURSIVE RemoveFromQueue(_, _)
RemoveFromQueue(q, isect) ==
  IF q = <<>> THEN <<>>
  ELSE IF Head(q).isect = isect THEN Tail(q)
       ELSE <<Head(q)>> \o RemoveFromQueue(Tail(q), isect)

\* Pushing with the winding of the current ring kept on a convex turn
PushingSameWinding(prevCoord, coord, nxtCoord, isect, parent, winding, ring) ==
  IF isConvex(<<prevCoord, coord, nxtCoord>>, winding = 1)
  THEN [isect |-> isect, parent |-> parent, winding |-> winding]
  ELSE [isect |-> isect, parent |-> ring, winding |-> winding]

\* Pushing that gives the ring to come the index after the current one as parent
PushingNextAsParent(prevCoord, coord, nxtCoord, isect, parent, winding, ring) ==
  [isect |-> isect, parent |-> ring + 1, winding |-> winding]

\* the entry pushed for nxtIsect when its other edge is still walkable
Pushing(prevCoord, coord, nxtCoord, isect, parent, winding, ring) ==
  IF isConvex(<<prevCoord, coord, nxtCoord>>, winding = 1)
  THEN [isect |-> isect, parent |-> parent, winding |-> -winding]
  ELSE [isect |-> isect, parent |-> ring, winding |-> winding]

\* ArrivedAlongEdge1 of a walker that goes straight on at a crossing
ArrivedAlongEdge1Straight(ringAndEdge, n) ==
  IF n.nxtIsectAlongRingAndEdge1 = undefined
  THEN equalArrays(ringAndEdge, n.ringAndEdge1)
  ELSE ~equalArrays(ringAndEdge, n.ringAndEdge1)

\* the walker arrives at intersection n along its ringAndEdge1, so that it
\* leaves along ringAndEdge2
ArrivedAlongEdge1(ringAndEdge, n) == equalArrays(ringAndEdge, n.ringAndEdge1)

\* PushToQueue that puts the entry at the front of the queue
PushToQueueFront(q, otherWalkable, pushing) == IF otherWalkable THEN <<pushing>> \o q ELSE q

\* PushToQueue that queues nothing
PushToQueueNever(q, otherWalkable, pushing) == q

\* the intersection is queued when its other edge can still be walked away over
PushToQueue(q, otherWalkable, pushing) == IF otherWalkable THEN Append(q, pushing) ELSE q

\* lines 378-496: one round of the walk loop, from currentIsect to nxtIsect
Walk ==
  /\ pc = "walk"
  /\ ~equalArrays(isectList[startIsect + 1].coord, isectList[nxtIsect + 1].coord)
  /\ LET n == isectList[nxtIsect + 1]
         q1 == RemoveFromQueue(queue, nxtIsect)
         viaEdge1 == ArrivedAlongEdge1(walkingRingAndEdge, n)
         nxtAlong == IF viaEdge1 THEN n.nxtIsectAlongRingAndEdge2
                                 ELSE n.nxtIsectAlongRingAndEdge1
         otherWalkable == IF viaEdge1 THEN n.ringAndEdge1Walkable ELSE n.ringAndEdge2Walkable
     IN  /\ currentOutputRingCoords' = Append(currentOutputRingCoords, n.coord)
         /\ walkingRingAndEdge' = IF viaEdge1 THEN n.ringAndEdge2 ELSE n.ringAndEdge1
         /\ isectList' = IF viaEdge1
                         THEN [isectList EXCEPT ![nxtIsect + 1].ringAndEdge2Walkable = FALSE]
                         ELSE [isectList EXCEPT ![nxtIsect + 1].ringAndEdge1Walkable = FALSE]
         /\ IF nxtAlong = undefined
            THEN /\ pc' = "error"
                 /\ thrown' = NextNotDefined
                 /\ queue' = q1
                 /\ UNCHANGED <<currentIsect, nxtIsect>>
            ELSE /\ pc' = "walk"
                 /\ UNCHANGED thrown
                 /\ queue' = PushToQueue(q1, otherWalkable,
                                          Pushing(isectList[currentIsect + 1].coord, n.coord,
                                                  isectList[nxtAlong + 1].coord, nxtIsect,
                                                  currentOutputRingParent,
                                                  currentOutputRingWinding,
                                                  Len(outputFeatureArray)))
                 /\ currentIsect' = nxtIsect
                 /\ nxtIsect' = nxtAlong
  /\ UNCHANGED <<callVars, numSelfIsect, coordinates, outputFeatureArray, startIsect,
                 currentOutputRingParent,
                 currentOutputRingWinding>>

\* lines 508-518: close the output ring and push it to the output
Close ==
  /\ pc = "walk"
  /\ equalArrays(isectList[startIsect + 1].coord, isectList[nxtIsect + 1].coord)
  /\ outputFeatureArray' =
       Append(outputFeatureArray,
              Feature(Append(currentOutputRingCoords, isectList[nxtIsect + 1].coord),
                      currentOutputRingParent, currentOutputRingWinding))
  /\ pc' = "queue"
  /\ UNCHANGED <<callVars, thrown, numSelfIsect, coordinates, isectList, queue, walkVars>>

\* lines 521-532: the queue is empty: determine parents and net winding, return
Finish ==
  /\ pc = "queue"
  /\ queue = <<>>
  /\ outputFeatureArray' = setNetWinding(determineParents(outputFeatureArray))
  /\ pc' = "done"
  /\ UNCHANGED <<callVars, thrown, numSelfIsect, coordinates, isectList, queue, walkVars>>

Next == Start \/ Pop \/ Walk \/ Close \/ Finish

Spec == Init /\ [][Next]_vars

SpecOpen == InitOpen /\ [][Next]_vars

\* simplepolygon called on a Feature with a Polygon geometry
InitWalker == Init /\ featureType = "Feature" /\ geometryType = "Polygon"

SpecWalker == InitWalker /\ [][Next]_vars

\* the caller calls simplepolygon once more on the feature it passed: the
\* rings are now closed, the first call having pushed the closing vertices
Again ==
  /\ pc = "done"
  /\ previous = <<>>
  /\ previous' = outputFeatureArray
  /\ pc' = "start"
  /\ numSelfIsect' = undefined
  /\ isectList' = <<>>
  /\ queue' = <<>>
  /\ outputFeatureArray' = <<>>
  /\ startIsect' = undefined
  /\ currentIsect' = undefined
  /\ nxtIsect' = undefined
  /\ walkingRingAndEdge' = <<>>
  /\ currentOutputRingParent' = -1
  /\ currentOutputRingWinding' = 0
  /\ currentOutputRingCoords' = <<>>
  /\ UNCHANGED <<featureType, geometryType, input, thrown, coordinates>>

NextTwice == Next \/ Again

\* two calls: on rings given open, then on the same rings closed
SpecTwice == InitOpen /\ [][NextTwice]_vars

(* ------------------------------- claims -------------------------------- *)
\* the returned collection has netWinding on every ring
Returned == pc = "done"

\* an output ring with all its properties
Ring(coords, parent, winding, netWinding) ==
  [coords |-> coords, parent |-> parent, winding |-> winding, netWinding |-> netWinding]

FigureEight ==
  <<<<Position(0, 0), Position(2, 0), Position(0, 2), Position(2, 2), Position(0, 0)>>>>

\* C1: for the figure-eight [[0,0],[2,0],[0,2],[2,2],[0,0]] the returned
\* collection is exactly the ring [[0,0],[2,0],[1,1],[0,0]] with winding 1
\* followed by the ring [[1,1],[0,2],[2,2],[1,1]] with winding -1, both with
\* parent -1 and netWinding equal to winding.
C1_FigureEight ==
  (Returned /\ input = FigureEight) =>
    outputFeatureArray =
      <<Ring(<<Position(0, 0), Position(2, 0), Position(1, 1), Position(0, 0)>>, -1, 1, 1),
        Ring(<<Position(1, 1), Position(0, 2), Position(2, 2), Position(1, 1)>>, -1, -1, -1)>>

C1_Witness == Returned /\ input = FigureEight /\ Len(outputFeatureArray) = 2

\* the records the intersection finder returns for the input
FinderRecords == gpsi([i \in 1..Len(input) |->
                   IF input[i][1] = input[i][Len(input[i])]
                   THEN input[i] ELSE Append(input[i], input[i][1])])

\* C2: when the intersection finder returns no record, no graph is built and
\* the returned collection has one ring per input ring, in input order, whose
\* coordinates are those of the input ring followed by the closing vertex
\* that the (open) ring lacked.
C2_FastPath ==
  (Returned /\ Len(FinderRecords) = 0) =>
    /\ isectList = <<>>
    /\ Len(outputFeatureArray) = Len(input)
    /\ \A i \in 1..Len(input) :
         outputFeatureArray[i].coords = Append(input[i], input[i][1])

C2_Witness ==
  /\ Returned
  /\ Len(FinderRecords) = 0
  /\ Len(input) = 3
  /\ \A i \in 1..Len(input) : Len(outputFeatureArray[i].coords) = Len(input[i]) + 1

\* every vertex of ring a lies strictly inside ring b
StrictlyInside(a, b) == \A k \in 1..Len(a) : booleanPointInPolygon(a[k], b)

SquareWithHole == <<Square(0, 4, TRUE), Square(1, 3, FALSE)>>

\* C3: for a two-ring input without intersections whose second ring lies
\* strictly inside the first, the output is the two input rings in order, the
\* outer ring with parent -1 and the inner ring with parent 0; for the square
\* with a hole the windings are +1 and -1 and the netWindings +1 and 0.
C3_Hole ==
  /\ (Returned /\ Len(input) = 2 /\ Len(FinderRecords) = 0
        /\ StrictlyInside(input[2], input[1])) =>
       /\ Len(outputFeatureArray) = 2
       /\ outputFeatureArray[1].coords = input[1]
       /\ outputFeatureArray[2].coords = input[2]
       /\ outputFeatureArray[1].parent = -1
       /\ outputFeatureArray[2].parent = 0
  /\ (Returned /\ input = SquareWithHole) =>
       outputFeatureArray =
         <<Ring(Square(0, 4, TRUE), -1, 1, 1), Ring(Square(1, 3, FALSE), 0, -1, 0)>>

C3_Witness ==
  /\ Returned
  /\ input = SquareWithHole
  /\ Len(outputFeatureArray) = 2
  /\ outputFeatureArray[2].parent = 0

\* the other output rings that strictly contain the first vertex of ring c
Containing(c) ==
  {j \in 1..Len(outputFeatureArray) :
     j # c /\ booleanPointInPolygon(outputFeatureArray[c].coords[1], outputFeatureArray[j].coords)}

\* area a is at most area b (fractions with positive denominators)
AreaLeq(a, b) == a[1] * b[2] <= b[1] * a[2]

\* C4: when several output rings enter the post-processor with parent -1
\* (here: all of them, the input having no intersection), each ring gets as
\* parent the smallest-area ring among the other output rings that strictly
\* contain its first vertex, and keeps -1 when there is none, whatever the
\* order of the rings.
C4_SmallestParent ==
  (Returned /\ isectList = <<>> /\ Len(outputFeatureArray) > 1) =>
    \A c \in 1..Len(outputFeatureArray) :
      IF Containing(c) = {}
      THEN outputFeatureArray[c].parent = -1
      ELSE /\ outputFeatureArray[c].parent + 1 \in Containing(c)
           /\ \A j \in Containing(c) :
                AreaLeq(area(outputFeatureArray[outputFeatureArray[c].parent + 1].coords),
                        area(outputFeatureArray[j].coords))

\* the index reached from ring i (0-based, or -1) after k steps along parent
RECURSIVE Ancestor(_, _, _)
Ancestor(features, i, k) ==
  IF k = 0 \/ i = -1 THEN i ELSE Ancestor(features, features[i + 1].parent, k - 1)

\* the parent and netWinding properties of a returned collection
ParentAndNetWindingOk ==
  \A i \in 1..Len(outputFeatureArray) :
    LET f == outputFeatureArray[i]
    IN  /\ f.parent \in ({-1} \cup (0..(Len(outputFeatureArray) - 1))) \ {i - 1}
        /\ Ancestor(outputFeatureArray, i - 1, Len(outputFeatureArray)) = -1
        /\ "netWinding" \in DOMAIN f
        /\ f.netWinding = IF f.parent = -1 THEN f.winding
                          ELSE outputFeatureArray[f.parent + 1].netWinding + f.winding

\* some vertex of an input ring lies on an edge of another input ring
VertexOnOtherRing ==
  \E i, j \in 1..Len(coordinates) :
    /\ i # j
    /\ \E k \in 1..Len(coordinates[i]) : \E e \in 1..(Len(coordinates[j]) - 1) :
         OnSegment(coordinates[i][k], coordinates[j][e], coordinates[j][e + 1])

SegmentsMeet(a, b, c, d) ==
  \/ /\ ConvexD(a, b, c) * ConvexD(a, b, d) < 0
     /\ ConvexD(c, d, a) * ConvexD(c, d, b) < 0
  \/ OnSegment(c, a, b) \/ OnSegment(d, a, b)
  \/ OnSegment(a, c, d) \/ OnSegment(b, c, d)

\* a closed ring is simple: consecutive edges meet only in their common
\* vertex and other pairs of edges have no point in common
RingSimple(ring) ==
  LET n == Len(ring) - 1
  IN  /\ n >= 3
      /\ \A e \in 1..n : \A f \in (e + 1)..n :
           IF f = e + 1
           THEN /\ ~OnSegment(ring[e], ring[f], ring[f + 1])
                /\ ~OnSegment(ring[f + 1], ring[e], ring[e + 1])
           ELSE IF e = 1 /\ f = n
           THEN /\ ~OnSegment(ring[2], ring[n], ring[n + 1])
                /\ ~OnSegment(ring[n], ring[1], ring[2])
           ELSE ~SegmentsMeet(ring[e], ring[e + 1], ring[f], ring[f + 1])

\* the orientation of a closed ring: the sign of its shoelace area
Orientation(ring) ==
  LET s == Shoelace2(ring, 1)[1] IN IF s > 0 THEN 1 ELSE IF s < 0 THEN -1 ELSE 0

\* C6: every output ring's winding is +1 exactly when the ring is right-hand
\* oriented (positive shoelace area) and -1 exactly when it is left-hand
\* oriented, for every simple input ring taken by the fast path and for every
\* ring emitted by the walker, a collinear left-most vertex included.
C6_WindingIsOrientation ==
  Returned =>
    \A i \in 1..Len(outputFeatureArray) :
      LET ring == outputFeatureArray[i].coords
      IN  ((isectList # <<>> \/ RingSimple(ring)) /\ Orientation(ring) # 0) =>
            outputFeatureArray[i].winding = Orientation(ring)

\* the coordinates of the vertices of the input rings
InputVertices == UNION {{input[i][k] : k \in 1..Len(input[i])} : i \in 1..Len(input)}

\* C7: every output ring is closed (first coordinate equals last) and, apart
\* from the closing vertex, no input ring vertex occurs twice in the same
\* output ring.
C7_ClosedNoRepeat ==
  Returned =>
    \A i \in 1..Len(outputFeatureArray) :
      LET ring == outputFeatureArray[i].coords
      IN  /\ ring[1] = ring[Len(ring)]
          /\ \A k \in 1..(Len(ring) - 1) : \A l \in (k + 1)..(Len(ring) - 1) :
               ring[k] = ring[l] => ring[k] \notin InputVertices

\* some input vertex lies on an input edge other than the two edges it joins
VertexOnEdge ==
  \E i, j \in 1..Len(coordinates) :
    \E k \in 1..(Len(coordinates[i]) - 1) : \E e \in 1..(Len(coordinates[j]) - 1) :
      /\ ~(i = j /\ (k = e \/ k = (e % (Len(coordinates[j]) - 1)) + 1))
      /\ OnSegment(coordinates[i][k], coordinates[j][e], coordinates[j][e + 1])

\* the vertices and the edge midpoints of a closed ring
ProbePoints(ring) ==
  {ring[k] : k \in 1..(Len(ring) - 1)} \cup
  {Rational2(ring[k][1] * ring[k + 1][3] + ring[k + 1][1] * ring[k][3],
             ring[k][2] * ring[k + 1][3] + ring[k + 1][2] * ring[k][3],
             2 * ring[k][3] * ring[k + 1][3]) : k \in 1..(Len(ring) - 1)}

\* pt lies on the boundary of the closed ring
OnBoundary(pt, ring) == \E e \in 1..(Len(ring) - 1) : OnSegment(pt, ring[e], ring[e + 1])

\* the closed ring a does not cross the closed ring b: no edge of a crosses an
\* edge of b, and the points of a off the boundary of b are all inside b or
\* all outside b
SameSide(a, b) ==
  /\ \A e \in 1..(Len(a) - 1) : \A f \in 1..(Len(b) - 1) :
       ~(/\ ConvexD(a[e], a[e + 1], b[f]) * ConvexD(a[e], a[e + 1], b[f + 1]) < 0
         /\ ConvexD(b[f], b[f + 1], a[e]) * ConvexD(b[f], b[f + 1], a[e + 1]) < 0)
  /\ Cardinality({booleanPointInPolygon(p, b) :
                     p \in {x \in ProbePoints(a) : ~OnBoundary(x, b)}}) <= 1

\* the output rings are simple and do not cross each other
SimpleAndNonCrossing ==
  /\ \A i \in 1..Len(outputFeatureArray) : RingSimple(outputFeatureArray[i].coords)
  /\ \A i, j \in 1..Len(outputFeatureArray) :
       i # j => SameSide(outputFeatureArray[i].coords, outputFeatureArray[j].coords)

\* C8 (as stated): the output rings are simple and do not cross each other: no
\* output ring has two non-adjacent edges that intersect, and two output
\* rings are disjoint in their interiors or one contains the other.
C8_Original == Returned => SimpleAndNonCrossing

\* C8 (amended): the same, for inputs in which no vertex lies on an edge other
\* than the two edges it joins.
C8_SimpleNonCrossing == (Returned /\ ~VertexOnEdge) => SimpleAndNonCrossing

C8_Witness ==
  /\ Returned
  /\ ~VertexOnEdge
  /\ Len(input) >= 2
  /\ Len(outputFeatureArray) >= 4

GraphCoordsUnique ==
  \A i, j \in 1..Len(isectList) : i # j => isectList[i].coord # isectList[j].coord

\* the number of edges of the graph that are still marked walkable
Walkable ==
  Cardinality({i \in 1..Len(isectList) : isectList[i].ringAndEdge1Walkable}) +
  Cardinality({i \in 1..Len(isectList) : isectList[i].ringAndEdge2Walkable})

\* a measure of the work left: every step after the first one lowers it
Rank ==
  IF pc \in {"queue", "walk"}
  THEN 3 * Walkable + 2 * Len(queue) + (IF pc = "walk" THEN 2 ELSE 1)
  ELSE 0

\* C10: for an input with unique vertices whose crossings are each reported
\* as two records (one of them unique) the walker halts: every step of the
\* queue loop and of the walk loop lowers the work left, so every walk reaches
\* the coordinate of its start intersection and the queue becomes empty, and
\* the run never ends in the error 'Next intersection not defined': while
\* simplepolygon has not returned, a step of a loop can be taken.
C10_WalkerHalts ==
  /\ [][(pc # "start" /\ GraphCoordsUnique) => Rank' < Rank]_vars
  /\ [](GraphCoordsUnique => thrown # NextNotDefined)

C10_Witness ==
  /\ Returned
  /\ GraphCoordsUnique
  /\ queue = <<>>
  /\ Len(isectList) > NumVertices(coordinates)
  /\ Len(outputFeatureArray) >= 4

\* the non-closing vertices of all input rings, as <<ring, index>>
NonClosing ==
  UNION {{<<i, k>> : k \in 1..(IF input[i][1] = input[i][Len(input[i])]
                                THEN Len(input[i]) - 1 ELSE Len(input[i]))} :
         i \in 1..Len(input)}

\* some coordinate pair occurs more than once among the non-closing vertices
RepeatedCoordinate ==
  \E v, w \in NonClosing : v # w /\ input[v[1]][v[2]] = input[w[1]][w[2]]

\* C11: whenever a coordinate pair occurs more than once among the non-closing
\* vertices of all rings, within one ring or shared between two rings,
\* simplepolygon fails with the duplicate vertices error.
C11_DuplicatesRejected ==
  (pc # "start" /\ featureType = "Feature" /\ geometryType = "Polygon" /\ RepeatedCoordinate) =>
    (pc = "error" /\ thrown = DuplicateVertices)

\* C12: when the input is not of type Feature, has no geometry, or has a
\* geometry that is not a Polygon, simplepolygon throws one of the input
\* errors and returns nothing, before a ring is modified and before the
\* intersection finder is called.
C12_InvalidInput ==
  (pc # "start" /\ (featureType # "Feature" \/ geometryType # "Polygon")) =>
    /\ pc = "error"
    /\ thrown \in {NotAFeature, EmptyGeometry, NotAPolygon}
    /\ featureType # "Feature" => thrown = NotAFeature
    /\ outputFeatureArray = <<>>
    /\ coordinates = input
    /\ numSelfIsect = undefined

C12_Witness ==
  /\ pc = "error"
  /\ featureType = "Feature"
  /\ geometryType = "MultiLineString"
  /\ thrown = NotAPolygon
  /\ Len(input) = 2
  /\ input[1][1] # input[1][Len(input[1])]
  /\ coordinates = input

\* C13: the first vertex of a ring is appended exactly when the ring's first
\* and last vertex differ, and the collection returned for rings given
\* without their closing vertex equals the one returned for the same rings
\* given with it.
C13_OpenClosed ==
  /\ pc # "start" =>
       \A i \in 1..Len(input) : coordinates[i] = Append(input[i], input[i][1])
  /\ (Returned /\ previous # <<>>) => outputFeatureArray = previous

C13_Witness ==
  /\ Returned
  /\ previous # <<>>
  /\ isectList # <<>>
  /\ Len(input) >= 2
  /\ outputFeatureArray = previous

\* every output ring has a positive area
PositiveAreas == \A i \in 1..Len(outputFeatureArray) : area(outputFeatureArray[i].coords)[1] > 0

\* C14 (as stated): every output ring has area > 0, for every accepted input,
\* on the fast path and on the walker path.
C14_Original == Returned => PositiveAreas

\* C14 (amended): the same, for inputs in which no vertex lies on an edge
\* other than the two edges it joins.
C14_PositiveArea == (Returned /\ ~VertexOnEdge) => PositiveAreas

C14_Witness ==
  /\ Returned
  /\ ~VertexOnEdge
  /\ isectList # <<>>
  /\ Len(outputFeatureArray) >= 3
  /\ PositiveAreas

\* the sum and the integer multiple of fractions <<n, d>>
FracAdd(a, b) == Rational1(a[1] * b[2] + b[1] * a[2], a[2] * b[2])
FracTimes(k, a) == Rational1(k * a[1], a[2])

\* the sum of term[i] for i in 1..n, term a function to fractions
RECURSIVE FracSum(_, _)
FracSum(term, n) == IF n = 0 THEN <<0, 1>> ELSE FracAdd(FracSum(term, n - 1), term[n])

\* twice the shoelace signed area of a closed ring, and twice its area
SignedArea2(ring) == Shoelace2(ring, 1)
Area2(ring) == <<Abs(Shoelace2(ring, 1)[1]), Shoelace2(ring, 1)[2]>>

\* twice the shoelace signed area summed over the input rings
InputSignedArea2 == FracSum([i \in 1..Len(coordinates) |-> SignedArea2(coordinates[i])], Len(coordinates))

\* twice the area of output ring i that lies in none of its child rings
ExclusiveArea2(i) ==
  FracAdd(Area2(outputFeatureArray[i].coords),
          FracTimes(-1, FracSum([j \in 1..Len(outputFeatureArray) |->
                                   IF outputFeatureArray[j].parent = i - 1
                                   THEN Area2(outputFeatureArray[j].coords) ELSE <<0, 1>>],
                                Len(outputFeatureArray))))

\* C15 (as stated): the sum over the output rings of netWinding times signed
\* area equals the shoelace signed area summed over the input rings.
C15_Original ==
  (Returned /\ \A i \in 1..Len(outputFeatureArray) : "netWinding" \in DOMAIN outputFeatureArray[i]) =>
    FracSum([i \in 1..Len(outputFeatureArray) |->
               FracTimes(outputFeatureArray[i].netWinding,
                         SignedArea2(outputFeatureArray[i].coords))],
            Len(outputFeatureArray)) = InputSignedArea2

\* every output ring has a netWinding and a winding equal to its orientation
WindingsAreOrientations ==
  \A i \in 1..Len(outputFeatureArray) :
    /\ "netWinding" \in DOMAIN outputFeatureArray[i]
    /\ outputFeatureArray[i].winding = Orientation(outputFeatureArray[i].coords)

\* C15 (amended): the shoelace signed areas of the output rings sum to the
\* shoelace signed area summed over the input rings; and when every output
\* ring's winding is its orientation, so does the sum over the output rings
\* of netWinding times the area of the ring that lies in none of its child
\* rings.
C15_AreaSum ==
  Returned =>
    /\ FracSum([i \in 1..Len(outputFeatureArray) |-> SignedArea2(outputFeatureArray[i].coords)],
               Len(outputFeatureArray)) = InputSignedArea2
    /\ WindingsAreOrientations =>
         FracSum([i \in 1..Len(outputFeatureArray) |->
                    FracTimes(outputFeatureArray[i].netWinding, ExclusiveArea2(i))],
                 Len(outputFeatureArray)) = InputSignedArea2

C15_Witness ==
  /\ Returned
  /\ WindingsAreOrientations
  /\ isectList # <<>>
  /\ Len(input) >= 2
  /\ \E i \in 1..Len(outputFeatureArray) : outputFeatureArray[i].netWinding = 2

\* the first entry has just been popped from the sorted seed queue
FirstPopped == pc = "walk" /\ outputFeatureArray = <<>> /\ Len(currentOutputRingCoords) = 1

\* the x-coordinate of the intersection of a queue entry (ring vertices: integers)
SeedX(entry) == isectList[entry.isect + 1].coord[1]

\* C16 (as stated): after the seed sort, the first entry popped is the seed
\* whose left-most intersection has the largest x-coordinate of all seeds.
C16_Original ==
  FirstPopped => \A k \in 1..Len(queue) : isectList[startIsect + 1].coord[1] >= SeedX(queue[k])

\* C16 (amended): after the seed sort, the first entry popped is the seed
\* whose left-most intersection has the smallest coordinate in the order of
\* the strings 'x,y'; when the x-coordinates of the seeds have one digit and
\* no sign, it is the seed with the smallest x-coordinate.
C16_FirstPopped ==
  FirstPopped =>
    /\ \A k \in 1..Len(queue) :
         StringGreater(ArrayToString(isectList[queue[k].isect + 1].coord),
                       ArrayToString(isectList[startIsect + 1].coord))
    /\ (/\ isectList[startIsect + 1].coord[1] \in 0..9
        /\ \A k \in 1..Len(queue) : SeedX(queue[k]) \in 0..9) =>
         \A k \in 1..Len(queue) : isectList[startIsect + 1].coord[1] <= SeedX(queue[k])

C16_Witness ==
  /\ FirstPopped
  /\ Len(queue) >= 2
  /\ \A k \in 1..Len(queue) : isectList[startIsect + 1].coord[1] < SeedX(queue[k])

\* the seed queue has just been sorted
SeedsSorted == pc = "queue" /\ outputFeatureArray = <<>> /\ startIsect = undefined

\* C17: the seed with the numerically smallest x-coordinate is last in the
\* sorted seed queue, so that it is popped first, and the seeds come in
\* descending numeric order of x, so that they are popped in ascending
\* order, whatever the digits and signs of the coordinates.
C17_NumericOrder ==
  SeedsSorted =>
    \A k, l \in 1..Len(queue) : k < l => SeedX(queue[k]) >= SeedX(queue[l])

\* a is left of b, or has the same x and is not above b
LexLeq(a, b) ==
  \/ a[1] * b[3] < b[1] * a[3]
  \/ a[1] * b[3] = b[1] * a[3] /\ a[2] * b[3] <= b[2] * a[3]

\* C18: the extremal vertex chosen by windingOfRing and by the seeder is the
\* vertex of the ring with the smallest x, ties broken by the smallest y.
C18_LeftmostLowest ==
  /\ pc \notin {"start", "error"} =>
       \A j \in 1..Len(coordinates) :
         LET ring == coordinates[j]
             n == Len(ring) - 1
         IN  \A k \in 1..n : LexLeq(ring[LeftScan(ring, n, 0, 0) + 1], ring[k])
  /\ SeedsSorted =>
       \A j \in 1..Len(coordinates) :
         LET leftIsect == LeftIsects(coordinates, isectList, 0, 0)[j]
         IN  \A k \in 1..(Len(coordinates[j]) - 1) :
               LexLeq(isectList[leftIsect + 1].coord, coordinates[j][k])

\* the coordinates walked so far: the output rings (numbered from 1) and the
\* ring under construction (numbered 0)
WalkedRing(i) == IF i = 0 THEN currentOutputRingCoords ELSE outputFeatureArray[i].coords

\* the steps of all walks so far, as <<ring, position>>
WalkedSteps ==
  {<<i, k>> \in ((IF pc = "walk" THEN {0} ELSE {}) \cup (1..Len(outputFeatureArray)))
                  \X (1..(2 * Len(isectList))) :
     k < Len(WalkedRing(i))}

\* the directed segment walked in a step
Segment(step) == <<WalkedRing(step[1])[step[2]], WalkedRing(step[1])[step[2] + 1]>>

\* the segment from a to b is a portion of an input edge, in its direction
AlongInputEdge(a, b) ==
  \E j \in 1..Len(coordinates) : \E e \in 1..(Len(coordinates[j]) - 1) :
    LET from == coordinates[j][e]
        to == coordinates[j][e + 1]
    IN  /\ OnSegment(a, from, to)
        /\ OnSegment(b, from, to)
        /\ (b[1] * a[3] - a[1] * b[3]) * (to[1] * from[3] - from[1] * to[3])
             + (b[2] * a[3] - a[2] * b[3]) * (to[2] * from[3] - from[2] * to[3]) > 0

\* C19: across all walks of one call, every step follows a portion of an
\* input edge in the direction of that edge, and no such directed segment
\* is walked more than once.
C19_SegmentsOnce ==
  (pc \in {"queue", "walk", "done"} /\ isectList # <<>>) =>
    /\ \A s \in WalkedSteps : AlongInputEdge(Segment(s)[1], Segment(s)[2])
    /\ Cardinality({Segment(s) : s \in WalkedSteps}) = Cardinality(WalkedSteps)

C19_Witness ==
  /\ Returned
  /\ isectList # <<>>
  /\ Len(outputFeatureArray) >= 3
  /\ Cardinality({Segment(s) : s \in WalkedSteps}) = Cardinality(WalkedSteps)
  /\ Cardinality(WalkedSteps) = 2 * Len(isectList) - NumVertices(coordinates)

\* the number of times coordinate c is a vertex of an output ring, the
\* closing vertex of a ring not counted
Visits(c) == Cardinality({s \in WalkedSteps : WalkedRing(s[1])[s[2]] = c})

\* the entries of the intersection list at coordinate c: ring vertices, and
\* intersections of two edges
RingVertexIsectsAt(c) ==
  {n \in 1..NumVertices(coordinates) : isectList[n].coord = c}

SelfIsectsAt(c) ==
  {n \in (NumVertices(coordinates) + 1)..Len(isectList) : isectList[n].coord = c}

\* C20 (as stated): over one complete run, each intersection of the
\* intersection list is a vertex of the output rings exactly twice, closing
\* vertices not counted.
C20_Original ==
  (Returned /\ isectList # <<>>) =>
    \A n \in 1..Len(isectList) : Visits(isectList[n].coord) = 2

\* C20 (amended): over one complete run, each intersection of two edges in
\* the intersection list is a vertex of the output rings exactly twice and
\* each ring-vertex intersection exactly once, closing vertices not counted
\* (entries of the list that share a coordinate add up).
C20_VisitsPerIntersection ==
  (Returned /\ isectList # <<>>) =>
    \A n \in 1..Len(isectList) :
      LET c == isectList[n].coord
      IN  Visits(c) = Cardinality(RingVertexIsectsAt(c)) + 2 * Cardinality(SelfIsectsAt(c))

C20_Witness ==
  /\ Returned
  /\ GraphCoordsUnique
  /\ Len(isectList) >= NumVertices(coordinates) + 2
  /\ Len(outputFeatureArray) >= 3
  /\ \A n \in 1..Len(isectList) :
       Visits(isectList[n].coord) = IF n > NumVertices(coordinates) THEN 2 ELSE 1

\* a round of the walk loop that ends without an error
WalkStep == pc = "walk" /\ pc' = "walk"

\* an entry for the intersection just reached is the last one of the queue
\* after a round of the walk loop
Pushed == queue' # <<>> /\ queue'[Len(queue')].isect = nxtIsect

\* C21: when a walk building output ring c with parent p and winding w
\* arrives from currentIsect at nxtIsect, an entry for nxtIsect is pushed
\* exactly when the walkable flag of the arrival edge is still true after
\* the flag of the departure edge was cleared; the entry has parent p and
\* winding -w when the triple (currentIsect, nxtIsect, next intersection
\* along the departure edge) is convex with right-handedness w = +1, and
\* parent c and winding w otherwise.
C21_PushRule ==
  [][WalkStep =>
       LET arrived == isectList'[nxtIsect + 1]
           viaEdge1 == walkingRingAndEdge = isectList[nxtIsect + 1].ringAndEdge1
           arrivalWalkable == IF viaEdge1 THEN arrived.ringAndEdge1Walkable
                                          ELSE arrived.ringAndEdge2Walkable
           departureWalkable == IF viaEdge1 THEN arrived.ringAndEdge2Walkable
                                            ELSE arrived.ringAndEdge1Walkable
           convex == (ConvexD(isectList[currentIsect + 1].coord, arrived.coord,
                              isectList[nxtIsect' + 1].coord) >= 0)
                       = (currentOutputRingWinding = 1)
       IN  /\ ~departureWalkable
           /\ Pushed <=> arrivalWalkable
           /\ Pushed =>
                queue'[Len(queue')] =
                  IF convex
                  THEN [isect |-> nxtIsect, parent |-> currentOutputRingParent,
                        winding |-> -currentOutputRingWinding]
                  ELSE [isect |-> nxtIsect, parent |-> Len(outputFeatureArray),
                        winding |-> currentOutputRingWinding]]_vars

\* the walk has just queued the intersection it is at, once as the start of
\* a ring inside the current one and, on an earlier round, another one as
\* the start of a ring outside
C21_Witness ==
  /\ pc = "walk"
  /\ Len(queue) >= 2
  /\ queue[Len(queue)] = [isect |-> currentIsect, parent |-> Len(outputFeatureArray),
                          winding |-> currentOutputRingWinding]
  /\ \E k \in 1..(Len(queue) - 1) :
       /\ queue[k].isect >= NumVertices(coordinates)
       /\ queue[k].parent = currentOutputRingParent
       /\ queue[k].winding = -currentOutputRingWinding

\* the fields of an intersection that the walker leaves alone
Wiring(isect) ==
  <<isect.coord, isect.ringAndEdge1, isect.ringAndEdge2,
    isect.nxtIsectAlongRingAndEdge1, isect.nxtIsectAlongRingAndEdge2>>

\* C22: during walking the only fields of the graph that change are walkable
\* flags, and every change sets a flag to false: a round of the walk loop
\* that arrives on ringAndEdge1 clears ringAndEdge2Walkable of the reached
\* intersection, any other arrival clears ringAndEdge1Walkable, and nothing
\* else changes; no flag is set back to true, and coordinates, incident
\* edges and next-intersection indices stay as they were wired.
C22_OnlyFlagsCleared ==
  [][pc # "start" =>
       /\ Len(isectList') = Len(isectList)
       /\ \A i \in 1..Len(isectList) :
            /\ Wiring(isectList'[i]) = Wiring(isectList[i])
            /\ isectList'[i].ringAndEdge1Walkable => isectList[i].ringAndEdge1Walkable
            /\ isectList'[i].ringAndEdge2Walkable => isectList[i].ringAndEdge2Walkable
       /\ IF pc = "walk" /\ pc' # "queue"
          THEN /\ \A i \in 1..Len(isectList) : i # nxtIsect + 1 => isectList'[i] = isectList[i]
               /\ IF walkingRingAndEdge = isectList[nxtIsect + 1].ringAndEdge1
                  THEN /\ ~isectList'[nxtIsect + 1].ringAndEdge2Walkable
                       /\ isectList'[nxtIsect + 1].ringAndEdge1Walkable
                            = isectList[nxtIsect + 1].ringAndEdge1Walkable
                  ELSE /\ ~isectList'[nxtIsect + 1].ringAndEdge1Walkable
                       /\ isectList'[nxtIsect + 1].ringAndEdge2Walkable
                            = isectList[nxtIsect + 1].ringAndEdge2Walkable
          ELSE isectList' = isectList]_vars

\* the walker has returned and has cleared both flags of an intersection of
\* two edges, and the flag of the outgoing edge of a ring vertex
C22_Witness ==
  /\ Returned
  /\ Len(isectList) > NumVertices(coordinates)
  /\ \E i \in (NumVertices(coordinates) + 1)..Len(isectList) :
       ~isectList[i].ringAndEdge1Walkable /\ ~isectList[i].ringAndEdge2Walkable
  /\ \E i \in 1..NumVertices(coordinates) : ~isectList[i].ringAndEdge2Walkable

\* the positions of the queue that hold an entry for intersection isect
QueuedAt(isect) == {k \in 1..Len(queue) : queue[k].isect = isect}

\* C23: when a walk reaches an intersection that has an entry in the queue,
\* that entry is removed before a new entry for the same intersection can be
\* pushed: the only entry the queue can hold for the intersection the walk
\* is at is the one pushed on arrival (the last one, and none for a ring
\* vertex), and the queue never holds two entries for one intersection.
C23_QueuedOnce ==
  /\ pc \in {"queue", "walk", "done"} =>
       Cardinality({queue[k].isect : k \in 1..Len(queue)}) = Len(queue)
  /\ pc = "walk" =>
       /\ QueuedAt(currentIsect) \subseteq {Len(queue)}
       /\ currentIsect < NumVertices(coordinates) => QueuedAt(currentIsect) = {}

\* the walk is at the seed of another ring, which is no longer queued, while
\* other entries are
C23_Witness ==
  /\ pc = "walk"
  /\ currentIsect # startIsect
  /\ currentIsect \in {LeftIsects(coordinates, isectList, 0, 0)[j] : j \in 1..Len(coordinates)}
  /\ QueuedAt(currentIsect) = {}
  /\ queue # <<>>

\* the ring and the index in the ring (both from 0) of the n-th non-closing
\* input vertex (n from 0), in ring order then vertex order
RECURSIVE RingAndVertex(_, _)
RingAndVertex(n, r) ==
  IF n < Len(coordinates[r + 1]) - 1 THEN <<r, n>>
  ELSE RingAndVertex(n - (Len(coordinates[r + 1]) - 1), r + 1)

\* the points in which two input edges cross
Crossings == {FinderRecords[k].isect : k \in 1..Len(FinderRecords)}

\* C24: after graph construction the first N entries of the intersection
\* list (N the number of non-closing input vertices) are the input ring
\* vertices in ring order then vertex order; the entry of vertex j of ring r
\* has ringAndEdge1 = [r, (j-1) mod n_r], ringAndEdge2 = [r, j],
\* ringAndEdge1Walkable false and ringAndEdge2Walkable true; every entry
\* after the first N has both flags true, and there is exactly one such
\* entry per crossing.
C24_IsectList ==
  SeedsSorted =>
    \E N \in {NumVertices(coordinates)} : \E crossings \in {Crossings} :
        /\ Len(isectList) = N + Cardinality(crossings)
        /\ \A n \in 0..(N - 1) :
             \E rj \in {RingAndVertex(n, 0)} :
             LET r == rj[1]
                 j == rj[2]
                 nr == Len(coordinates[r + 1]) - 1
                 e == isectList[n + 1]
             IN  /\ e.coord = input[r + 1][j + 1]
                 /\ e.ringAndEdge1 = <<r, (j + nr - 1) % nr>>
                 /\ e.ringAndEdge2 = <<r, j>>
                 /\ ~e.ringAndEdge1Walkable
                 /\ e.ringAndEdge2Walkable
        /\ \A n \in N..(Len(isectList) - 1) :
             /\ isectList[n + 1].ringAndEdge1Walkable
             /\ isectList[n + 1].ringAndEdge2Walkable
        /\ {isectList[n + 1].coord : n \in N..(Len(isectList) - 1)} = crossings

\* the graph of an input of two rings with at least two crossings
C24_Witness ==
  /\ SeedsSorted
  /\ Len(input) >= 2
  /\ Len(isectList) >= NumVertices(coordinates) + 2
  /\ Cardinality(Crossings) = Len(isectList) - NumVertices(coordinates)

\* the graph has just been wired
GraphWired == isectList # <<>> /\ outputFeatureArray = <<>> /\ startIsect = undefined

\* the start and the end of the input edge [ring, edge]
EdgeStart(ringAndEdge) == coordinates[ringAndEdge[1] + 1][ringAndEdge[2] + 1]
EdgeEnd(ringAndEdge) == coordinates[ringAndEdge[1] + 1][ringAndEdge[2] + 2]

\* a comes before b on the way from the start to the end of the edge
Before(ringAndEdge, a, b) ==
  (b[1] * a[3] - a[1] * b[3])
     * (EdgeEnd(ringAndEdge)[1] * EdgeStart(ringAndEdge)[3]
          - EdgeStart(ringAndEdge)[1] * EdgeEnd(ringAndEdge)[3])
  + (b[2] * a[3] - a[2] * b[3])
     * (EdgeEnd(ringAndEdge)[2] * EdgeStart(ringAndEdge)[3]
          - EdgeStart(ringAndEdge)[2] * EdgeEnd(ringAndEdge)[3]) > 0

\* the coordinates of the pseudo-vertices of an edge: the intersections of
\* the edge with other edges, and its end
PseudoVtxCoords(ringAndEdge) ==
  {isectList[n].coord :
     n \in {u \in (NumVertices(coordinates) + 1)..Len(isectList) :
              ringAndEdge \in {isectList[u].ringAndEdge1, isectList[u].ringAndEdge2}}}
  \cup {EdgeEnd(ringAndEdge)}

\* the next-intersection index nxt stored for leaving the intersection at
\* coord over the edge is the intersection at the next pseudo-vertex
IsNextAlong(ringAndEdge, coord, nxt) ==
  /\ nxt # undefined
  /\ Before(ringAndEdge, coord, isectList[nxt + 1].coord)
  /\ \E pvs \in {PseudoVtxCoords(ringAndEdge)} :
       /\ isectList[nxt + 1].coord \in pvs
       /\ \A c \in pvs :
            ~(Before(ringAndEdge, coord, c) /\ Before(ringAndEdge, c, isectList[nxt + 1].coord))

\* C25: after graph wiring, for every intersection and each edge it may be
\* left over, the stored next-intersection index is defined and is the
\* index of the intersection at the next pseudo-vertex along that edge by
\* ascending param (for a ring vertex, which is the last pseudo-vertex of
\* its incoming edge: at the first pseudo-vertex of the next edge of the
\* ring); for ring-vertex intersections the value is stored in
\* nxtIsectAlongRingAndEdge2 and nxtIsectAlongRingAndEdge1 stays undefined.
C25_NextIsect ==
  GraphWired =>
    \A l \in 1..Len(isectList) :
      /\ IsNextAlong(isectList[l].ringAndEdge2, isectList[l].coord,
                     isectList[l].nxtIsectAlongRingAndEdge2)
      /\ IF l <= NumVertices(coordinates)
         THEN isectList[l].nxtIsectAlongRingAndEdge1 = undefined
         ELSE IsNextAlong(isectList[l].ringAndEdge1, isectList[l].coord,
                          isectList[l].nxtIsectAlongRingAndEdge1)

\* the step reads a next-intersection index that is not resolved: the
\* seeder the index after the left-most intersection of a ring, the queue
\* loop the index along the edge it leaves the start over, the walk loop the
\* index along the edge it leaves the reached intersection over
UnresolvedRead ==
  \/ /\ pc = "start"
     /\ isectList' # <<>>
     /\ \E j \in 1..Len(coordinates') :
          isectList'[LeftIsects(coordinates', isectList', 0, 0)[j] + 1].nxtIsectAlongRingAndEdge2
            = undefined
  \/ /\ pc = "queue"
     /\ queue # <<>>
     /\ LET s == isectList[queue[Len(queue)].isect + 1]
        IN  (IF s.ringAndEdge1Walkable THEN s.nxtIsectAlongRingAndEdge1
                                       ELSE s.nxtIsectAlongRingAndEdge2) = undefined
  \/ /\ pc = "walk"
     /\ isectList[startIsect + 1].coord # isectList[nxtIsect + 1].coord
     /\ LET n == isectList[nxtIsect + 1]
        IN  (IF walkingRingAndEdge = n.ringAndEdge1 THEN n.nxtIsectAlongRingAndEdge2
                                                    ELSE n.nxtIsectAlongRingAndEdge1) = undefined

\* C26: when a next-intersection index needed by the seeder or the walker
\* is unresolved at the moment it is read, simplepolygon raises the error
\* 'Next intersection not defined' instead of going on, and returns no
\* output: the run stops there.
C26_GraphInconsistency ==
  [][/\ UnresolvedRead => (pc' = "error" /\ thrown' = "Next intersection not defined")
     /\ pc # "error"]_vars

\* the seeder has met a left-most intersection without a next intersection
C26_Witness ==
  /\ pc = "error"
  /\ thrown = "Next intersection not defined"
  /\ outputFeatureArray = <<>>
  /\ \E j \in 1..Len(coordinates) :
       isectList[LeftIsects(coordinates, isectList, 0, 0)[j] + 1].nxtIsectAlongRingAndEdge2
         = undefined

\* the coordinates of a sequence of coordinates
CoordsOf(ring) == {ring[k] : k \in 1..Len(ring)}

\* the coordinates of the ring-vertex intersections
RingVertexCoords == {isectList[n].coord : n \in 1..NumVertices(coordinates)}

\* C27: the queue being a stack, whenever the popped start intersection is
\* a ring-vertex seed (index < N), the queue holds only ring-vertex seeds at
\* that pop, and the output ring walked from it touches no output ring
\* emitted before: it has no intersection in common with an earlier ring.
C27_SeedRingApart ==
  (pc \in {"queue", "walk", "done"} /\ isectList # <<>>) =>
    /\ (pc = "walk" /\ startIsect < NumVertices(coordinates)) =>
         /\ Len(currentOutputRingCoords) = 1 =>
              \A k \in 1..Len(queue) : queue[k].isect < NumVertices(coordinates)
         /\ \A k \in 1..Len(outputFeatureArray) :
              CoordsOf(currentOutputRingCoords) \cap CoordsOf(outputFeatureArray[k].coords) = {}
    /\ \A i \in 1..Len(outputFeatureArray) :
         outputFeatureArray[i].coords[1] \in RingVertexCoords =>
           \A k \in 1..(i - 1) :
             CoordsOf(outputFeatureArray[i].coords) \cap CoordsOf(outputFeatureArray[k].coords) = {}

\* a ring walked from a ring-vertex seed, through an intersection of two
\* edges, after another ring was emitted
C27_Witness ==
  /\ pc = "walk"
  /\ isectList # <<>>
  /\ startIsect < NumVertices(coordinates)
  /\ Len(outputFeatureArray) >= 1
  /\ currentIsect >= NumVertices(coordinates)
  /\ queue # <<>>

\* an entry has just been popped and the walk has not left its start yet
JustPopped == pc = "walk" /\ Len(currentOutputRingCoords) = 1

\* C28: whenever an entry is popped from the queue, the edge over which its
\* walk leaves the start intersection (ringAndEdge1 if ringAndEdge1Walkable
\* is true, else ringAndEdge2) is still marked walkable there, and no
\* earlier walk has left that intersection over it: the segment from the
\* start intersection to the next one is not part of an earlier ring.
C28_UnusedDeparture ==
  JustPopped =>
    /\ IF walkingRingAndEdge = isectList[startIsect + 1].ringAndEdge1
       THEN isectList[startIsect + 1].ringAndEdge1Walkable
       ELSE isectList[startIsect + 1].ringAndEdge2Walkable
    /\ \A i \in 1..Len(outputFeatureArray) :
         \A k \in 1..(Len(outputFeatureArray[i].coords) - 1) :
           <<outputFeatureArray[i].coords[k], outputFeatureArray[i].coords[k + 1]>>
             # <<isectList[startIsect + 1].coord, isectList[nxtIsect + 1].coord>>

\* an intersection of two edges is popped after two rings have gone
\* through intersections of two edges
C28_Witness ==
  /\ JustPopped
  /\ startIsect >= NumVertices(coordinates)
  /\ Len(outputFeatureArray) >= 2
  /\ \E i \in 1..Len(outputFeatureArray) :
       isectList[startIsect + 1].coord \in CoordsOf(outputFeatureArray[i].coords)

\* the vertices of the output rings, closing vertices left out, as
\* <<ring, position>>
OutputVertices ==
  UNION {{<<i, k>> : k \in 1..(Len(outputFeatureArray[i].coords) - 1)} :
         i \in 1..Len(outputFeatureArray)}

\* the output rings that have a vertex at coordinate c
RingsThrough(c) == {v[1] : v \in {u \in OutputVertices : outputFeatureArray[u[1]].coords[u[2]] = c}}

Walking == pc \in {"queue", "walk"} /\ isectList # <<>>

\* C30: every parent assigned by the walker, before the post-processor runs,
\* is -1 or the index of an output ring emitted before the ring that
\* carries it: the parent of an emitted ring is smaller than the index of
\* the ring, the parent of the ring under construction is the index of an
\* emitted ring, and the parent of a queued entry is at most the index of
\* the ring under construction, which is emitted before the ring of the
\* entry; so the parent relation of the walker has no cycle.
C30_ParentEmittedEarlier ==
  Walking =>
    /\ \A i \in 1..Len(outputFeatureArray) :
         outputFeatureArray[i].parent \in -1..(i - 2)
    /\ pc = "walk" => currentOutputRingParent \in -1..(Len(outputFeatureArray) - 1)
    /\ \A k \in 1..Len(queue) :
         queue[k].parent \in
           -1..(IF pc = "walk" THEN Len(outputFeatureArray) ELSE Len(outputFeatureArray) - 1)

\* the walker has emitted its last ring, and a ring with a parent that has
\* a parent itself
C30_Witness ==
  /\ Walking
  /\ pc = "queue"
  /\ queue = <<>>
  /\ \E i \in 1..Len(outputFeatureArray) :
       /\ outputFeatureArray[i].parent >= 0
       /\ outputFeatureArray[outputFeatureArray[i].parent + 1].parent >= 0

====
